---- MODULE Spec2Model ----
(***************************************************************************)
(* A model of src/quiz_generator.py: the QuizGenerator pipeline            *)
(* (extract_key_terms, extract_sentences, generate_essay_questions,        *)
(* generate_multiple_choice, generate_content) and the export loop of      *)
(* main().                                                                 *)
(*                                                                         *)
(* A text is a sequence of whitespace-separated tokens: a word, the        *)
(* sentence delimiter "." or a blank " " (extra whitespace).  Formatted    *)
(* strings are built with \o exactly as the f-strings of the source build  *)
(* them, so that two of them are equal exactly when the Python strings     *)
(* are.                                                                    *)
(***************************************************************************)
EXTENDS Integers, Sequences, FiniteSets, TLC

VARIABLES pc, input_text, key_terms, sentences, essay_questions,
          mc_count, mc_record, err, show_explanations, export_text

\* pc                 where generate_content (or a generator run on its own) is
\* input_text         the text, as its sequence of tokens
\* key_terms          the list extract_key_terms returned
\* sentences          the list extract_sentences returned
\* essay_questions    the list generate_essay_questions builds
\* mc_count           len(mc_questions), which is also the loop index i
\* mc_record          the record the current iteration passes to append; the
\*                    records appended earlier are never read or changed again
\*                    and are kept by their number only
\* err                the exception raised, "none" while there is none
\* show_explanations  the 'Show quiz explanations' checkbox
\* export_text        the lines the export loop wrote for the question
vars == <<pc, input_text, key_terms, sentences, essay_questions,
          mc_count, mc_record, err, show_explanations, export_text>>

-----------------------------------------------------------------------------
(* Bounds of the model *)

\* longest text of the exhaustively enumerated short texts
MaxLen == 3
\* most distinct words of a generated long text
MaxDistinct == 17
\* longest key-term list handed directly to the two generators
MaxTerms == 3
\* most retained sentences handed directly to generate_multiple_choice
MaxSents == 3

-----------------------------------------------------------------------------
(* Program constants *)

MinWordLen == 3
MinFrequent == 2
PadTarget == 10
MaxKeyTerms == 15
MinSentenceWords == 5
EssayTopics == 3
NumEssay == 2
NumMC == 3

-----------------------------------------------------------------------------
(* Sequence helpers *)

Take(s, n) == IF n <= 0 THEN <<>> ELSE SubSeq(s, 1, IF n < Len(s) THEN n ELSE Len(s))

Range(s) == {s[j] : j \in DOMAIN s}

NoDuplicates(s) == \A p, q \in DOMAIN s : p /= q => s[p] /= s[q]

RECURSIVE SeqsUpTo(_, _)
SeqsUpTo(S, n) ==
    IF n = 0 THEN {<<>>}
    ELSE LET shorter == SeqsUpTo(S, n - 1)
         IN  shorter \cup {Append(s, x) : s \in {t \in shorter : Len(t) = n - 1}, x \in S}

-----------------------------------------------------------------------------
(* Tokens *)

Delimiter == "."
Blank == " "

\* the words the long texts are built from, all alphabetic, lowercase, 3+ letters
Vocabulary ==
    <<"cat", "dog", "bird", "fish", "lion", "wolf", "bear", "deer", "frog",
      "goat", "hare", "lamb", "mole", "newt", "orca", "puma", "quail", "rook",
      "seal", "toad", "vole", "wasp">>

\* str.lower() on the tokens that carry an upper-case letter
LowerTable ==
    [t \in {"Cat", "The", "Cats", "Dogs"} |->
        CASE t = "Cat" -> "cat" [] t = "The" -> "the"
          [] t = "Cats" -> "cats" [] t = "Dogs" -> "dogs"]

Lower(t) == IF t \in DOMAIN LowerTable THEN LowerTable[t] ELSE t

\* tokens made of letters only
AlphaTokens ==
    Range(Vocabulary) \cup DOMAIN LowerTable
      \cup {"the", "are", "ox", "cats", "dogs", "mammals", "too"}

common_words ==
    {"the", "a", "an", "and", "or", "but", "in", "on", "at", "to", "for",
     "of", "with", "by", "is", "are", "was", "were", "be", "been", "being",
     "have", "has", "had", "do", "does", "did", "will", "would", "could",
     "should", "may", "might", "must", "can", "this", "that", "these",
     "those", "i", "you", "he", "she", "it", "we", "they", "me", "him",
     "her", "us", "them", "my", "your", "his", "its", "our", "their"}

-----------------------------------------------------------------------------
(* extract_key_terms *)

\* re.findall(r'\b[a-zA-Z]{3,}\b', ...) keeps a token
MatchesWord(t) == t \in AlphaTokens /\ Len(t) >= MinWordLen

\* words = re.findall(..., text.lower())
FindWords(text) ==
    LET lowered == [j \in DOMAIN text |-> Lower(text[j])]
    IN  SelectSeq(lowered, MatchesWord)

IsCommonWord(w) == w \in common_words

\* the dict word_freq after the counting loop: its keys in insertion order and
\* the count of each
RECURSIVE CountWords(_, _)
CountWords(words, n) ==
    IF n = 0 THEN [keys |-> <<>>, freq |-> <<>>]
    ELSE LET d == CountWords(words, n - 1)
             w == words[n]
         IN  IF IsCommonWord(w) THEN d
             ELSE IF \E j \in DOMAIN d.keys : d.keys[j] = w
                  THEN [d EXCEPT !.freq =
                           [j \in DOMAIN d.keys |->
                               IF d.keys[j] = w THEN d.freq[j] + 1 ELSE d.freq[j]]]
                  ELSE [keys |-> Append(d.keys, w), freq |-> Append(d.freq, 1)]

\* the positions of the dict's items, in insertion order
Items(d) == [j \in DOMAIN d.keys |-> j]

\* [word for word, freq in word_freq.items() if freq >= 2]
FrequentTerms(d) ==
    LET idx == SelectSeq(Items(d), LAMBDA j : d.freq[j] >= MinFrequent)
    IN  [j \in DOMAIN idx |-> d.keys[idx[j]]]

\* [word for word, freq in word_freq.items() if freq == 1]
SingleTerms(d) ==
    LET idx == SelectSeq(Items(d), LAMBDA j : d.freq[j] = 1)
    IN  [j \in DOMAIN idx |-> d.keys[idx[j]]]

\* the padding takes 10 single terms whatever was selected before
PadWithTenSingles(frequent, d) ==
    IF Len(frequent) < PadTarget
    THEN frequent \o Take(SingleTerms(d), PadTarget)
    ELSE frequent

\* if len(key_terms) < 10: key_terms.extend(single_terms[:10-len(key_terms)])
PadWithSingles(frequent, d) ==
    IF Len(frequent) < PadTarget
    THEN frequent \o Take(SingleTerms(d), PadTarget - Len(frequent))
    ELSE frequent

\* the list is returned whole
AllTerms(terms) == terms

\* return key_terms[:15]
TopTerms(terms) == Take(terms, MaxKeyTerms)

extract_key_terms(text) ==
    LET words == FindWords(text)
        word_freq == CountWords(words, Len(words))
    IN  TopTerms(PadWithSingles(FrequentTerms(word_freq), word_freq))

-----------------------------------------------------------------------------
(* extract_sentences *)

\* re.split(r'[.!?]+', text): the token runs between delimiters
RECURSIVE SplitSentences(_, _)
SplitSentences(text, n) ==
    IF n = 0 THEN <<<<>>>>
    ELSE LET parts == SplitSentences(text, n - 1)
             last == parts[Len(parts)]
         IN  IF text[n] = Delimiter
             THEN Append(parts, <<>>)
             ELSE [parts EXCEPT ![Len(parts)] = Append(last, text[n])]

\* sentence.split(): the whitespace-delimited words
SplitWords(sentence) == SelectSeq(sentence, LAMBDA t : t /= Blank)

\* sentence.strip(): without leading and trailing whitespace
RECURSIVE StripLeft(_)
StripLeft(s) == IF s /= <<>> /\ Head(s) = Blank THEN StripLeft(Tail(s)) ELSE s

RECURSIVE StripRight(_)
StripRight(s) ==
    IF s /= <<>> /\ s[Len(s)] = Blank THEN StripRight(SubSeq(s, 1, Len(s) - 1)) ELSE s

Strip(s) == StripRight(StripLeft(s))

IsMeaningful(sentence) == Len(SplitWords(sentence)) >= MinSentenceWords

extract_sentences(text) ==
    LET parts == SplitSentences(text, Len(text))
        stripped == [j \in DOMAIN parts |-> Strip(parts[j])]
    IN  SelectSeq(stripped, IsMeaningful)

-----------------------------------------------------------------------------
(* The template tables of __init__ *)

question_starters ==
    <<"What is the significance of",
      "How does",
      "Why is",
      "What are the main characteristics of",
      "Explain the relationship between",
      "What factors contribute to",
      "How can we understand",
      "What role does">>

\* each template is the text before and the text after its {}
essay_prompts ==
    <<[pre |-> "Analyze and discuss the key concepts presented in the text regarding ",
       post |-> ". Provide specific examples and explain their significance."],
      [pre |-> "Compare and contrast different aspects of ",
       post |-> " mentioned in the document. How do these elements relate to each other?"],
      [pre |-> "Evaluate the importance of ",
       post |-> " in the context provided. What are the potential implications or consequences?"],
      [pre |-> "Describe the main themes related to ",
       post |-> " and explain how they connect to broader concepts or real-world applications."],
      [pre |-> "Critically examine ",
       post |-> " as presented in the text. What questions or areas for further research does this raise?"]>>

\* prompt_template.format(term)
Format(template, term) == template.pre \o term \o template.post

-----------------------------------------------------------------------------
(* generate_essay_questions *)

\* every selected term gets a question
EssayCandidatesAll(terms) ==
    IF Len(terms) >= EssayTopics THEN Take(terms, EssayTopics) ELSE terms

\* selected_terms[:2], with selected_terms = key_terms[:3] if len(key_terms) >= 3
\* else key_terms
EssayCandidates(terms) ==
    LET selected_terms == IF Len(terms) >= EssayTopics THEN Take(terms, EssayTopics) ELSE terms
    IN  Take(selected_terms, NumEssay)

\* f"Essay Question {i+1}: {question}", i the 0-based loop index
EssayTermQuestion(i, template, term) ==
    "Essay Question " \o ToString(i + 1) \o ": " \o Format(template, term)

\* the generic question appended while fewer than 2 exist
EssayGenericQuestion(count) ==
    "Essay Question " \o ToString(count + 1)
      \o ": Analyze the main ideas presented in the provided text and discuss their significance. Support your analysis with specific examples from the material."

-----------------------------------------------------------------------------
(* generate_multiple_choice *)

\* chr(65 + correct_index); chr(64) is "@"
Chr65(index) == IF index = -1 THEN "@" ELSE <<"A", "B", "C", "D">>[index + 1]

\* f"Related to {term} as mentioned in the context"
CorrectAnswerText(term) == "Related to " \o term \o " as mentioned in the context"

\* list.index(x): the 0-based position of the first x, -1 standing for the
\* ValueError raised when there is none
IndexOf(s, x) ==
    IF \E j \in DOMAIN s : s[j] = x
    THEN (CHOOSE j \in DOMAIN s : s[j] = x /\ \A h \in 1..(j - 1) : s[h] /= x) - 1
    ELSE -1

\* the orders random.shuffle can leave 4 options in
Shuffles == {f \in [1..4 -> 1..4] : \A p, q \in 1..4 : p /= q => f[p] /= f[q]}

\* the question is built on a term as soon as a term is left
TermBranchTermsOnly(i, terms, sents) == i < Len(terms)

\* the question is built on a term as soon as a sentence is left
TermBranchSentencesOnly(i, terms, sents) == i < Len(sents)

\* if i < len(key_terms) and i < len(sentences)
TermBranch(i, terms, sents) == i < Len(terms) /\ i < Len(sents)

\* what random.choice(key_terms) if key_terms else <placeholder> can evaluate to
DistractorTopics(terms, placeholder) ==
    IF terms /= <<>> THEN Range(terms) ELSE {placeholder}

\* the three distractors carry no letter
MCOptionsUnlettered(term, d1, d2, d3) ==
    <<CorrectAnswerText(term),
      "Unrelated concept about " \o d1,
      "Unrelated concept about " \o d2,
      "Unrelated concept about " \o d3>>

\* the option list before the shuffle
MCOptions(term, d1, d2, d3) ==
    <<CorrectAnswerText(term),
      "Unrelated concept A about " \o d1,
      "Unrelated concept B about " \o d2,
      "Unrelated concept C about " \o d3>>

\* the correct answer is located before the options are shuffled
MCTermRecordIndexFirst(term, starter, unshuffled, shuffle) ==
    LET correct_answer == CorrectAnswerText(term)
        correct_index == IndexOf(unshuffled, correct_answer)
        options == [j \in 1..4 |-> unshuffled[shuffle[j]]]
    IN  [question |-> starter \o " " \o term \o "?",
         options |-> options,
         correct_answer |-> Chr65(correct_index),
         explanation |-> "This question focuses on understanding " \o term
                           \o " in the given context."]

\* the record of a term-based question: the options shuffled, the correct
\* answer located in the shuffled list
MCTermRecord(term, starter, unshuffled, shuffle) ==
    LET correct_answer == CorrectAnswerText(term)
        options == [j \in 1..4 |-> unshuffled[shuffle[j]]]
        correct_index == IndexOf(options, correct_answer)
    IN  [question |-> starter \o " " \o term \o "?",
         options |-> options,
         correct_answer |-> Chr65(correct_index),
         explanation |-> "This question focuses on understanding " \o term
                           \o " in the given context."]

MCGenericRecord ==
    [question |-> "What is a key concept discussed in the text?",
     options |-> <<"A main idea from the provided material",
                   "An unrelated concept",
                   "A different topic entirely",
                   "Something not mentioned in the text">>,
     correct_answer |-> "A",
     explanation |-> "This question tests comprehension of the main content."]

\* the records the term branch can build at loop index i, one for each outcome
\* of the random draws
TermRecords(i, terms) ==
    {MCTermRecord(terms[i + 1], starter, MCOptions(terms[i + 1], d1, d2, d3), shuffle) :
        starter \in Range(question_starters),
        d1 \in DistractorTopics(terms, "general topic"),
        d2 \in DistractorTopics(terms, "another topic"),
        d3 \in DistractorTopics(terms, "different subject"),
        shuffle \in Shuffles}

-----------------------------------------------------------------------------
(* Input texts *)

ShortAlphabet == {"cat", "Cat", "dog", "the", "ox", Delimiter, Blank}

ShortTexts == SeqsUpTo(ShortAlphabet, MaxLen)

\* the first n words of the vocabulary in order, then the words lo..hi once
\* more, then the word `third` (0: none) once more
LongText(n, lo, hi, third) ==
    SubSeq(Vocabulary, 1, n) \o <<"The", Delimiter>>
      \o SubSeq(Vocabulary, lo, hi)
      \o (IF third = 0 THEN <<>> ELSE <<Vocabulary[third]>>)

LongTexts ==
    {LongText(n, lo, hi, third) :
        n \in 0..MaxDistinct, lo \in 1..(MaxDistinct + 1), hi \in 0..MaxDistinct,
        third \in 0..2}

NoRecord == [question |-> "", options |-> <<>>, correct_answer |-> "", explanation |-> ""]

\* the texts the whole pipeline is run on: every short text, and texts with
\* sentences of 5 and more words
FiveCats == <<"cat", "cat", "cat", "cat", "cat">>
FiveStops == <<"the", "ox", "the", "ox", "the">>
CatsAndDogs == <<"Cat", "dog", "the", "cat", "dog", "ox">>

SentenceTexts ==
    {FiveCats,
     FiveCats \o <<Delimiter, Blank>> \o FiveCats \o <<Delimiter>>,
     FiveStops \o <<Delimiter>>,
     FiveStops \o <<Delimiter>> \o FiveStops,
     FiveStops \o <<Delimiter>> \o FiveCats,
     <<"cat", "dog", "ox", Delimiter>> \o FiveStops,
     CatsAndDogs \o <<Delimiter>> \o <<"cat", "dog">>,
     CatsAndDogs \o <<Delimiter, Delimiter>> \o CatsAndDogs \o <<Delimiter>>,
     <<"Cats", "are", "mammals", Delimiter, "Cats", "are", "mammals", Delimiter,
       "Cats", "are", "mammals", Delimiter, "Dogs", "are", "mammals", "too", Delimiter>>}

PipelineTexts == ShortTexts \cup SentenceTexts

\* the key-term lists and sentence lists the generators are run on directly
TermLists == {SubSeq(Vocabulary, 1, n) : n \in 0..MaxTerms}

SentenceLists == {[j \in 1..n |-> FiveCats] : n \in 0..MaxSents}

-----------------------------------------------------------------------------
(* The steps *)

Raise(error) ==
    /\ err' = error
    /\ pc' = "error"

\* the text is tested without being stripped
IsEmptyText(text) == text = <<>>

\* not input_text.strip()
IsBlankText(text) == Strip(text) = <<>>

\* generate_content: if not input_text.strip(): return [], []
ReturnEmpty ==
    /\ pc = "start"
    /\ IsBlankText(input_text)
    /\ pc' = "done"
    /\ essay_questions' = <<>>
    /\ mc_count' = 0
    /\ UNCHANGED <<input_text, key_terms, sentences, mc_record, err,
                   show_explanations, export_text>>

BeginContent ==
    /\ pc = "start"
    /\ ~IsBlankText(input_text)
    /\ pc' = "extract"
    /\ UNCHANGED <<input_text, key_terms, sentences, essay_questions, mc_count,
                   mc_record, err, show_explanations, export_text>>

\* key_terms = self.extract_key_terms(input_text)
\* sentences = self.extract_sentences(input_text)
Extract ==
    /\ pc = "extract"
    /\ key_terms' = extract_key_terms(input_text)
    /\ sentences' = extract_sentences(input_text)
    /\ pc' = "essay"
    /\ UNCHANGED <<input_text, essay_questions, mc_count, mc_record, err,
                   show_explanations, export_text>>

\* one iteration of: for i, term in enumerate(selected_terms[:2])
EssayTerm ==
    /\ pc = "essay"
    /\ Len(essay_questions) < Len(EssayCandidates(key_terms))
    /\ LET i == Len(essay_questions)
           term == EssayCandidates(key_terms)[i + 1]
       IN  IF essay_prompts = <<>>
           THEN Raise("IndexError") /\ UNCHANGED essay_questions
           ELSE \E template \in Range(essay_prompts) :
                    /\ essay_questions' =
                          Append(essay_questions, EssayTermQuestion(i, template, term))
                    /\ UNCHANGED <<pc, err>>
    /\ UNCHANGED <<input_text, key_terms, sentences, mc_count, mc_record,
                   show_explanations, export_text>>

\* one iteration of: while len(essay_questions) < 2
EssayGeneric ==
    /\ pc = "essay"
    /\ Len(essay_questions) >= Len(EssayCandidates(key_terms))
    /\ Len(essay_questions) < NumEssay
    /\ essay_questions' =
          Append(essay_questions, EssayGenericQuestion(Len(essay_questions)))
    /\ UNCHANGED <<pc, input_text, key_terms, sentences, mc_count, mc_record, err,
                   show_explanations, export_text>>

\* return essay_questions
EssayReturn ==
    /\ pc = "essay"
    /\ Len(essay_questions) >= Len(EssayCandidates(key_terms))
    /\ Len(essay_questions) >= NumEssay
    /\ pc' = "essay_done"
    /\ UNCHANGED <<input_text, key_terms, sentences, essay_questions, mc_count,
                   mc_record, err, show_explanations, export_text>>

\* generate_content: mc_questions = self.generate_multiple_choice(...)
CallMultipleChoice ==
    /\ pc = "essay_done"
    /\ pc' = "mc"
    /\ UNCHANGED <<input_text, key_terms, sentences, essay_questions, mc_count,
                   mc_record, err, show_explanations, export_text>>

\* for i in range(3), the branch on a key term, up to the record that is
\* appended; mc_count is len(mc_questions) and so the loop index i
MCTerm ==
    /\ pc = "mc"
    /\ mc_count < NumMC
    /\ TermBranch(mc_count, key_terms, sentences)
    /\ LET i == mc_count
       IN  IF \/ ~(i < Len(key_terms))
              \/ (~(i < Len(sentences)) /\ sentences = <<>>)
              \/ question_starters = <<>>
           THEN Raise("IndexError") /\ UNCHANGED mc_record
           ELSE \E record \in TermRecords(i, key_terms) :
                    IF IndexOf(record.options, CorrectAnswerText(key_terms[i + 1])) = -1
                    THEN Raise("ValueError") /\ UNCHANGED mc_record
                    ELSE /\ mc_record' = record
                         /\ pc' = "mc_append"
                         /\ UNCHANGED err
    /\ UNCHANGED <<input_text, key_terms, sentences, essay_questions, mc_count,
                   show_explanations, export_text>>

\* for i in range(3), the else branch, up to the record that is appended
MCGeneric ==
    /\ pc = "mc"
    /\ mc_count < NumMC
    /\ ~TermBranch(mc_count, key_terms, sentences)
    /\ mc_record' = MCGenericRecord
    /\ pc' = "mc_append"
    /\ UNCHANGED <<input_text, key_terms, sentences, essay_questions, mc_count, err,
                   show_explanations, export_text>>

\* mc_questions.append({...}): the list grows by the record, whose parts are
\* not read again by the loop
MCAppend ==
    /\ pc = "mc_append"
    /\ mc_count' = mc_count + 1
    /\ mc_record' = NoRecord
    /\ pc' = "mc"
    /\ UNCHANGED <<input_text, key_terms, sentences, essay_questions, err,
                   show_explanations, export_text>>

\* return mc_questions
MCReturn ==
    /\ pc = "mc"
    /\ mc_count >= NumMC
    /\ pc' = "mc_done"
    /\ UNCHANGED <<input_text, key_terms, sentences, essay_questions, mc_count,
                   mc_record, err, show_explanations, export_text>>

\* generate_content: return essay_questions, mc_questions
ReturnContent ==
    /\ pc = "mc_done"
    /\ pc' = "done"
    /\ UNCHANGED <<input_text, key_terms, sentences, essay_questions, mc_count,
                   mc_record, err, show_explanations, export_text>>

-----------------------------------------------------------------------------
(* generate_content on a drawn text *)

Init ==
    /\ pc = "start"
    /\ input_text \in PipelineTexts
    /\ key_terms = <<>>
    /\ sentences = <<>>
    /\ essay_questions = <<>>
    /\ mc_count = 0
    /\ mc_record = NoRecord
    /\ err = "none"
    /\ show_explanations = TRUE
    /\ export_text = <<>>

Next ==
    \/ ReturnEmpty
    \/ BeginContent
    \/ Extract
    \/ EssayTerm
    \/ EssayGeneric
    \/ EssayReturn
    \/ CallMultipleChoice
    \/ MCTerm
    \/ MCGeneric
    \/ MCAppend
    \/ MCReturn
    \/ ReturnContent

Spec == Init /\ [][Next]_vars

-----------------------------------------------------------------------------
(* The two extractors on a drawn text *)

InitTerms ==
    /\ pc = "extract"
    /\ input_text \in ShortTexts \cup LongTexts
    /\ key_terms = <<>>
    /\ sentences = <<>>
    /\ essay_questions = <<>>
    /\ mc_count = 0
    /\ mc_record = NoRecord
    /\ err = "none"
    /\ show_explanations = TRUE
    /\ export_text = <<>>

NextTerms == Extract

SpecTerms == InitTerms /\ [][NextTerms]_vars

-----------------------------------------------------------------------------
(* The two generators on a drawn key-term list and sentence list *)

InitGen ==
    /\ pc \in {"essay", "mc"}
    /\ input_text = <<>>
    /\ key_terms \in TermLists
    /\ sentences \in SentenceLists
    /\ essay_questions = <<>>
    /\ mc_count = 0
    /\ mc_record = NoRecord
    /\ err = "none"
    /\ show_explanations = TRUE
    /\ export_text = <<>>

NextGen ==
    \/ EssayTerm
    \/ EssayGeneric
    \/ EssayReturn
    \/ MCTerm
    \/ MCGeneric
    \/ MCAppend
    \/ MCReturn

SpecGen == InitGen /\ [][NextGen]_vars

-----------------------------------------------------------------------------
(* main(): the export of one multiple-choice question, on a generated record *)

\* every option is lettered by the number of the question
ExportLinesQuestionLetter(i, q, show) ==
    <<"", ToString(i) \o ". " \o q.question>>
      \o [j \in DOMAIN q.options |-> "   " \o Chr65(i - 1) \o ". " \o q.options[j]]
      \o <<"   Correct Answer: " \o q.correct_answer>>
      \o (IF show THEN <<"   Explanation: " \o q.explanation>> ELSE <<>>)

\* what one iteration of for i, q in enumerate(mc_questions, 1) adds to
\* export_text, as the lines the "\n" of the f-strings separate
ExportLines(i, q, show) ==
    <<"", ToString(i) \o ". " \o q.question>>
      \o [j \in DOMAIN q.options |-> "   " \o Chr65(j - 1) \o ". " \o q.options[j]]
      \o <<"   Correct Answer: " \o q.correct_answer>>
      \o (IF show THEN <<"   Explanation: " \o q.explanation>> ELSE <<>>)

\* the records generate_multiple_choice can return at position i (from 1)
GeneratedRecords(i, terms, sents) ==
    IF TermBranch(i - 1, terms, sents) THEN TermRecords(i - 1, terms) ELSE {MCGenericRecord}

InitExport ==
    /\ pc = "export"
    /\ input_text = <<>>
    /\ key_terms \in TermLists
    /\ sentences \in SentenceLists
    /\ essay_questions = <<>>
    /\ mc_count \in 1..NumMC
    /\ mc_record \in GeneratedRecords(mc_count, key_terms, sentences)
    /\ err = "none"
    /\ show_explanations \in BOOLEAN
    /\ export_text = <<>>

\* the body of the loop over mc_questions, for the question at position
\* mc_count
ExportQuestion ==
    /\ pc = "export"
    /\ export_text' = export_text \o ExportLines(mc_count, mc_record, show_explanations)
    /\ pc' = "exported"
    /\ UNCHANGED <<input_text, key_terms, sentences, essay_questions, mc_count,
                   mc_record, err, show_explanations>>

NextExport == ExportQuestion

SpecExport == InitExport /\ [][NextExport]_vars

-----------------------------------------------------------------------------
(* What a text contains, counted directly on the text *)

\* how often the word w occurs in the text, case folded
Occurrences(w, text) == Cardinality({j \in DOMAIN text : Lower(text[j]) = w})

\* the position of the first occurrence of w
FirstSeen(w, text) ==
    CHOOSE j \in DOMAIN text :
        /\ Lower(text[j]) = w
        /\ \A h \in 1..(j - 1) : Lower(text[h]) /= w

\* the distinct words that qualify as terms: 3+ letters, no stopword
Qualifying(text) ==
    {w \in {Lower(text[j]) : j \in DOMAIN text} :
        w \in AlphaTokens /\ Len(w) >= MinWordLen /\ w \notin common_words}

FrequentWords(text) == {w \in Qualifying(text) : Occurrences(w, text) >= MinFrequent}

SingleWords(text) == {w \in Qualifying(text) : Occurrences(w, text) = 1}

Min(a, b) == IF a < b THEN a ELSE b

\* s lists members of S in the order of their first occurrence, and every
\* member of S it leaves out was first seen after all those it lists
EarliestOf(s, S, text) ==
    /\ Range(s) \subseteq S
    /\ \A p, q \in DOMAIN s : p < q => FirstSeen(s[p], text) < FirstSeen(s[q], text)
    /\ \A w \in S \ Range(s) : \A p \in DOMAIN s : FirstSeen(s[p], text) < FirstSeen(w, text)

Extracted == pc = "essay"

\* C3: the list extract_key_terms returns has at most 15 entries, holds no term
\* twice and holds no stopword.
C3_AtMost15DistinctNoStopword ==
    Extracted =>
        /\ Len(key_terms) <= MaxKeyTerms
        /\ NoDuplicates(key_terms)
        /\ \A j \in DOMAIN key_terms : key_terms[j] \notin common_words

\* a text with more than 15 frequent words and a stopword, cut to 15 terms
C3_Witness ==
    /\ Extracted
    /\ Cardinality(FrequentWords(input_text)) > MaxKeyTerms
    /\ \E j \in DOMAIN input_text : Lower(input_text[j]) \in common_words
    /\ Len(key_terms) = MaxKeyTerms

\* C4: the returned list is ranked by descending frequency, ties broken by
\* discovery order.
C4_RankedByFrequency ==
    Extracted =>
        \A p, q \in DOMAIN key_terms :
            p < q =>
                LET fp == Occurrences(key_terms[p], input_text)
                    fq == Occurrences(key_terms[q], input_text)
                IN  /\ fp >= fq
                    /\ fp = fq => FirstSeen(key_terms[p], input_text)
                                    < FirstSeen(key_terms[q], input_text)

\* C5: every word of frequency >= 2 is selected, in discovery order; only with
\* fewer than 10 of them are frequency-1 words appended, in discovery order,
\* until there are 10 or none is left; the list is then cut to 15.
C5_FrequentThenPaddedTo10 ==
    Extracted =>
        LET F == FrequentWords(input_text)
            S == SingleWords(input_text)
            nF == Cardinality(F)
            nS == Cardinality(S)
            kept == Min(nF, MaxKeyTerms)
            n == Len(key_terms)
        IN  /\ n = (IF nF < PadTarget THEN Min(PadTarget, nF + nS) ELSE kept)
            /\ EarliestOf(SubSeq(key_terms, 1, kept), F, input_text)
            /\ EarliestOf(SubSeq(key_terms, kept + 1, n), S, input_text)
            /\ (Range(key_terms) \cap S /= {}) => n <= PadTarget
            /\ nF <= MaxKeyTerms => F \subseteq Range(key_terms)
            /\ n < PadTarget => Cardinality(Qualifying(input_text)) < PadTarget

\* some but fewer than 10 frequent words, and more single words than fit
C5_Witness ==
    /\ Extracted
    /\ Cardinality(FrequentWords(input_text)) \in 1..(PadTarget - 1)
    /\ Cardinality(FrequentWords(input_text)) + Cardinality(SingleWords(input_text))
          > PadTarget
    /\ Len(key_terms) = PadTarget
    /\ SingleWords(input_text) \ Range(key_terms) /= {}

-----------------------------------------------------------------------------
(* Properties of the generators and of generate_content *)

StartsWith(str, prefix) ==
    Len(str) >= Len(prefix) /\ SubSeq(str, 1, Len(prefix)) = prefix

EndsWith(str, suffix) ==
    Len(str) >= Len(suffix) /\ SubSeq(str, Len(str) - Len(suffix) + 1, Len(str)) = suffix

Contains(str, part) ==
    \E a \in 1..(Len(str) - Len(part) + 1) : SubSeq(str, a, a + Len(part) - 1) = part

\* the text has a character that is not whitespace
HasContent(text) == \E j \in DOMAIN text : text[j] /= Blank

Letters == <<"A", "B", "C", "D">>

\* the 1-based position a letter A-D stands for
LetterPosition(letter) == CHOOSE n \in DOMAIN Letters : Letters[n] = letter

\* the record about to be appended is the one of loop index mc_count
Appending == pc = "mc_append"

\* index i has both a key term and a retained sentence
HasTermAndSentence(i) == i < Len(key_terms) /\ i < Len(sentences)

\* C1: 2 essay questions and 3 multiple-choice records for a text that is not
\* blank, and the pair of empty lists for an empty or whitespace-only text.
C1_TwoEssaysThreeRecordsUnlessBlank ==
    pc = "done" =>
        IF HasContent(input_text)
        THEN Len(essay_questions) = 2 /\ mc_count = 3
        ELSE essay_questions = <<>> /\ mc_count = 0

\* a text of delimiters only is not blank and gets its 2 and 3 questions
C1_Witness ==
    /\ pc = "done"
    /\ input_text /= <<>>
    /\ \A j \in DOMAIN input_text : input_text[j] \in {Delimiter, Blank}
    /\ \E j \in DOMAIN input_text : input_text[j] = Delimiter
    /\ Len(essay_questions) = 2
    /\ mc_count = 3

\* C2: every record has 4 options and a correct-answer letter A-D, and the
\* option at the letter's position is the intended correct-answer text.
C2_LetterPointsAtCorrectAnswer ==
    Appending =>
        /\ Len(mc_record.options) = 4
        /\ mc_record.correct_answer \in {"A", "B", "C", "D"}
        /\ mc_record.options[LetterPosition(mc_record.correct_answer)] =
              (IF HasTermAndSentence(mc_count)
               THEN "Related to " \o key_terms[mc_count + 1] \o " as mentioned in the context"
               ELSE "A main idea from the provided material")

\* a term-based record whose correct answer the shuffle moved to D
C2_Witness ==
    /\ Appending
    /\ HasTermAndSentence(mc_count)
    /\ mc_record.correct_answer = "D"
    /\ mc_record.options[1] /= CorrectAnswerText(key_terms[mc_count + 1])

\* C6: exactly 3 records; record i is built on key_terms[i] exactly when i is
\* below the number of key terms and below the number of retained sentences,
\* and is the fixed generic record with correct answer "A" otherwise.
C6_TermBasedIffTermAndSentence ==
    /\ pc /= "error"
    /\ pc = "mc_done" => mc_count = 3
    /\ Appending =>
          /\ mc_count \in 0..2
          /\ IF HasTermAndSentence(mc_count)
             THEN /\ EndsWith(mc_record.question, " " \o key_terms[mc_count + 1] \o "?")
                  /\ mc_record.explanation =
                        "This question focuses on understanding "
                          \o key_terms[mc_count + 1] \o " in the given context."
                  /\ mc_record /= MCGenericRecord
             ELSE /\ mc_record = MCGenericRecord
                  /\ mc_record.correct_answer = "A"
                  /\ mc_record.question = "What is a key concept discussed in the text?"

\* 3 key terms and 2 retained sentences: the record of index 2 is generic
C6_Witness ==
    /\ Appending
    /\ Len(key_terms) = 3
    /\ Len(sentences) = 2
    /\ mc_count = 2
    /\ mc_record = MCGenericRecord

\* C7: exactly 2 essay questions; entry i is a template filled with
\* key_terms[i] when there is such a term and the generic prompt otherwise,
\* labelled with its number; no term beyond the first 2 is embedded.
C7_TwoEssayQuestions ==
    pc = "essay_done" =>
        /\ Len(essay_questions) = 2
        /\ \A i \in 0..1 :
              /\ i + 1 \in DOMAIN essay_questions
              /\ StartsWith(essay_questions[i + 1], "Essay Question " \o ToString(i + 1) \o ": ")
              /\ IF i < Len(key_terms)
                 THEN \E n \in 1..5 :
                          essay_questions[i + 1] =
                              "Essay Question " \o ToString(i + 1) \o ": "
                                \o essay_prompts[n].pre \o key_terms[i + 1]
                                \o essay_prompts[n].post
                 ELSE essay_questions[i + 1] =
                          "Essay Question " \o ToString(i + 1)
                            \o ": Analyze the main ideas presented in the provided text and discuss their significance. Support your analysis with specific examples from the material."
        /\ \A j \in 3..Len(key_terms) :
              \A n \in DOMAIN essay_questions : ~Contains(essay_questions[n], key_terms[j])

\* one key term: a template question on it, then the generic question 2
C7_Witness ==
    /\ pc = "essay_done"
    /\ Len(key_terms) = 1
    /\ Len(essay_questions) = 2
    /\ Contains(essay_questions[1], key_terms[1])
    /\ essay_questions[2] = EssayGenericQuestion(1)

\* C8: no input leads to an error; without a key term or without a retained
\* sentence the fallback questions are produced.
C8_NoErrorState ==
    /\ pc /= "error"
    /\ err = "none"
    /\ (Appending /\ (key_terms = <<>> \/ sentences = <<>>)) => mc_record = MCGenericRecord
    /\ (pc = "done" /\ HasContent(input_text) /\ key_terms = <<>>) =>
          essay_questions = <<EssayGenericQuestion(0), EssayGenericQuestion(1)>>

\* a text with a retained sentence and no key term runs to its end
C8_Witness ==
    /\ pc = "done"
    /\ key_terms = <<>>
    /\ sentences /= <<>>
    /\ Len(essay_questions) = 2
    /\ mc_count = 3

PlaceholderTopics == {"general topic", "another topic", "different subject"}

\* C10: in a term-based record the 4 options are pairwise distinct, the correct
\* answer text is at exactly one position, and no option holds a placeholder
\* topic.
C10_OptionsDistinct ==
    (Appending /\ HasTermAndSentence(mc_count)) =>
        /\ NoDuplicates(mc_record.options)
        /\ Cardinality({j \in DOMAIN mc_record.options :
                           mc_record.options[j] = CorrectAnswerText(key_terms[mc_count + 1])}) = 1
        /\ \A j \in DOMAIN mc_record.options :
              \A topic \in PlaceholderTopics : ~Contains(mc_record.options[j], topic)

\* all three distractors drew the term the question is about
C10_Witness ==
    /\ Appending
    /\ HasTermAndSentence(mc_count)
    /\ Len(key_terms) >= 2
    /\ \A letter \in {"A", "B", "C"} :
          ("Unrelated concept " \o letter \o " about " \o key_terms[mc_count + 1])
              \in Range(mc_record.options)

-----------------------------------------------------------------------------
(* Properties of the export *)

Exported == pc = "exported"

\* the text of a line after a prefix of the given length
After(line, n) == SubSeq(line, n + 1, Len(line))

\* the export of the question shows its text, its 4 options under A-D in
\* order and its correct-answer letter, each of which can be read back
QuestionReadBack ==
    /\ Len(export_text) >= 7
    /\ StartsWith(export_text[2], ToString(mc_count) \o ". ")
    /\ After(export_text[2], Len(ToString(mc_count)) + 2) = mc_record.question
    /\ \A j \in 1..4 :
          /\ StartsWith(export_text[2 + j], "   " \o Letters[j] \o ". ")
          /\ After(export_text[2 + j], 6) = mc_record.options[j]
    /\ StartsWith(export_text[7], "   Correct Answer: ")
    /\ After(export_text[7], 19) = mc_record.correct_answer

ExplanationReadBack ==
    /\ Len(export_text) = 8
    /\ StartsWith(export_text[8], "   Explanation: ")
    /\ After(export_text[8], 16) = mc_record.explanation

\* C9 as stated: whatever the settings, the export of a question holds its
\* text, options, correct letter and explanation.
C9_ExportLossless == Exported => (QuestionReadBack /\ ExplanationReadBack)

\* C9 amended: the export holds the text, options and correct letter; it holds
\* the explanation exactly when 'show quiz explanations' is checked.
C9_ExportLosslessWhenShown ==
    Exported =>
        /\ QuestionReadBack
        /\ IF show_explanations THEN ExplanationReadBack ELSE Len(export_text) = 7

\* a term-based record exported with the explanations shown
C9_Witness ==
    /\ Exported
    /\ show_explanations
    /\ mc_record /= MCGenericRecord
    /\ mc_count = 2
    /\ ExplanationReadBack

====
